---- MODULE Spec2Model ----
(***************************************************************************)
(* Model of scripts/extract_mixbox_lut.py: the four-step pipeline of       *)
(* main() (create the Node.js snippet, run it, convert the raw binary to a *)
(* Dart array literal, clean up), the embedded extract_lut.js snippet, and *)
(* the file system and console the script acts on.                         *)
(*                                                                         *)
(* Scaling: the source fixes the LUT at 64*64*64*3 = 786432 bytes.  The    *)
(* model keeps the shape GridSize^3 * 3 and checks it for a small          *)
(* GridSize; nothing in the script depends on the value other than through *)
(* the comparisons and the slice modelled here.                            *)
(***************************************************************************)
EXTENDS Integers, Sequences, FiniteSets, TLC

\* ------------------------------------------------------------- bounds
\* Width of the cubic grid (64 in the source).
GridSize == 2
\* Longest leading header in front of the LUT in a decompressed buffer.
MaxHeader == 3
\* Decompressed contents are drawn from the families 0..MaxSeed.
MaxSeed == 7
\* Longest raw file handed to convert_to_dart when it is checked on its own.
MaxBufLen == 35

\* ------------------------------------------------------------- names
JS_FILE == "extract_lut.js"
RAW_FILE == "mixbox_lut_raw.bin"
OUT_FILE == "../lib/utils/mixbox_lut_data.dart"

\* "no exit code yet": the process is still running.
Running == 0 - 1

VARIABLES
    pc,            \* position of main(): "step1" .. "step4", "done"
    exitCode,      \* the value main() returned to sys.exit, or Running
    mixboxCode,    \* the input file mixbox.esm.js, as far as the snippet reads it
    nodeInstalled, \* whether a `node` executable is on the PATH
    fs,            \* the files: name -> content; a name not in DOMAIN fs does not exist
    lut_data,      \* convert_to_dart's local: the bytes read from the raw file
    stdout,        \* the progress messages printed so far
    stderr,        \* the error messages printed so far
    written        \* the files this run has created or opened for writing

vars == <<pc, exitCode, mixboxCode, nodeInstalled, fs, lut_data, stdout, stderr, written>>

\* ------------------------------------------------------------- helpers
Min(a, b) == IF a < b THEN a ELSE b

Range(s) == {s[i] : i \in 1..Len(s)}

Exists(files, name) == name \in DOMAIN files

WriteFile(files, name, data) ==
    [n \in DOMAIN files \cup {name} |-> IF n = name THEN data ELSE files[n]]

RemoveFile(files, name) == [n \in DOMAIN files \ {name} |-> files[n]]

\* ------------------------------------------------------------- extract_lut.js
expectedSize == GridSize * GridSize * GridSize * 3

js_script == <<"extract_lut.js source">>

\* Faulty variant: both checks left out.
LocateAlwaysFound(code) == ""

\* Lines 28-46: the two lookups in the module text, in the order the snippet
\* makes them.  "" means both were found.
Locate(code) ==
    IF ~code.hasLutDecl THEN "Could not find LUT data in mixbox.esm.js"
    ELSE IF ~code.hasDecompressFn THEN "Could not find decompress function"
    ELSE ""

\* Faulty variant: keeps the leading window instead of the trailing one.
SliceHead(lut, offset) == SubSeq(lut, 1, Len(lut) - offset)

\* TypedArray.slice(begin): the elements from 0-based index begin to the end.
Slice(lut, offset) == SubSeq(lut, offset + 1, Len(lut))

\* Faulty variant: no size check at all.
NormalizeAcceptAll(lut) == [ok |-> TRUE, lutBuffer |-> lut]

\* Faulty variant: a longer buffer is accepted without trimming its header.
NormalizeNoTrim(lut) ==
    IF Len(lut) >= expectedSize THEN [ok |-> TRUE, lutBuffer |-> lut]
    ELSE [ok |-> FALSE, lutBuffer |-> <<>>]

\* Lines 60-74: the size check.  ok = FALSE is the process.exit(1) branch.
NormalizeSize(lut) ==
    IF Len(lut) = expectedSize THEN [ok |-> TRUE, lutBuffer |-> lut]
    ELSE IF Len(lut) > expectedSize
         THEN [ok |-> TRUE, lutBuffer |-> Slice(lut, Len(lut) - expectedSize)]
         ELSE [ok |-> FALSE, lutBuffer |-> <<>>]

\* The whole snippet, run by node in the scripts directory.  fault is what the
\* environment does to it: "none", or an exception thrown by readFileSync
\* ("read"), by eval/decompress ("eval") or by writeFileSync ("write"); an
\* uncaught exception ends node with a non-zero status.
ExtractLutJs(code, files, fault) ==
    IF fault = "read"
    THEN [status |-> 1, err |-> "Uncaught exception", files |-> files]
    ELSE IF Locate(code) # ""
    THEN [status |-> 1, err |-> Locate(code), files |-> files]
    ELSE IF fault = "eval"
    THEN [status |-> 1, err |-> "Uncaught exception", files |-> files]
    ELSE LET norm == NormalizeSize(code.lut) IN
         IF ~norm.ok
         THEN [status |-> 1, err |-> "Decompressed data smaller than expected!",
               files |-> files]
         ELSE IF fault = "write"
         THEN [status |-> 1, err |-> "Uncaught exception", files |-> files]
         ELSE [status |-> 0, err |-> "",
               files |-> WriteFile(files, RAW_FILE, norm.lutBuffer)]

\* ------------------------------------------------------------- convert_to_dart
\* Lines 115-131: the fixed header, ending in the array declaration.
DartHeader == "const List<int> mixboxLutData = ["

\* Bytes per output line (lines 134, 135, 137).
ChunkSize == 16

Digits == <<"0", "1", "2", "3", "4", "5", "6", "7", "8", "9">>

\* str(b) for a byte: its decimal digits, most significant first.
RECURSIVE Str(_)
Str(b) == IF b < 10 THEN <<Digits[b + 1]>>
          ELSE Str(b \div 10) \o <<Digits[(b % 10) + 1]>>

\* ", ".join(str(b) for b in chunk)
RECURSIVE Join(_)
Join(chunk) ==
    IF Len(chunk) = 0 THEN <<>>
    ELSE IF Len(chunk) = 1 THEN Str(chunk[1])
    ELSE Str(chunk[1]) \o <<",", " ">> \o Join(Tail(chunk))

\* Faulty variant: <= for <.
MoreFollowsOffByOne(data, i) == i + ChunkSize <= Len(data)

\* Line 137: whether the line starting at 0-based offset i gets a trailing comma.
MoreFollows(data, i) == i + ChunkSize < Len(data)

\* Faulty variant: the slice stops one byte early.
ChunkDropsLast(data, i) == SubSeq(data, i + 1, Min(i + ChunkSize, Len(data)) - 1)

\* Line 135: lut_data[i:i+16]
Chunk(data, i) == SubSeq(data, i + 1, Min(i + ChunkSize, Len(data)))

\* Lines 135-139: one pass of the loop body, the text it appends.
Line(data, i) ==
    <<" ", " ">> \o Join(Chunk(data, i))
        \o (IF MoreFollows(data, i) THEN <<",">> ELSE <<>>) \o <<"\n">>

\* Lines 134-139: for i in range(0, len(lut_data), 16)
RECURSIVE DataLines(_, _)
DataLines(data, i) ==
    IF i >= Len(data) THEN <<>>
    ELSE Line(data, i) \o DataLines(data, i + ChunkSize)

\* Faulty variant: line 141 forgotten, the literal is never closed.
dart_code_unterminated(data) == <<DartHeader, "\n">> \o DataLines(data, 0)

\* Lines 115-141: the text of the generated file, one element per character
\* (the header is one element, before its line break).
dart_code(data) == <<DartHeader, "\n">> \o DataLines(data, 0) \o <<"]", ";", "\n">>

\* ------------------------------------------------------------- cleanup
\* Faulty variant: the raw file is left out of the list.
CleanupJsOnly == <<JS_FILE>>

\* Line 155: the files cleanup() removes, in order.
CleanupNames == <<JS_FILE, RAW_FILE>>

\* Lines 155-158 for the first k names: each removed if it exists.
RECURSIVE CleanupFirst(_, _)
CleanupFirst(files, k) ==
    IF k = 0 THEN files
    ELSE RemoveFile(CleanupFirst(files, k - 1), CleanupNames[k])

RECURSIVE CleanupLog(_, _)
CleanupLog(files, k) ==
    IF k = 0 THEN <<>>
    ELSE CleanupLog(files, k - 1)
            \o (IF Exists(files, CleanupNames[k])
                THEN <<"Cleaned up " \o CleanupNames[k]>> ELSE <<>>)

\* ------------------------------------------------------------- main
\* Faulty variant: a failure path that returns 0.
ReturnZero == 1 - 1

\* Lines 181, 201, 207: the three return statements of main().
ExtractionFailedReturn == 1

SuccessReturn == 0

ExceptionReturn == 1

\* Lines 179-181: the failure branch of step 2 removes nothing.
AfterExtractionFailure(files) == files

\* Faulty variant: the handler cleans up before it returns.
AfterExceptionCleansUp(files) == CleanupFirst(files, Len(CleanupNames))

\* Lines 203-207: the handler prints and returns; it removes nothing.
AfterException(files) == files

\* Lines 203-207: an exception raised inside the try block, with the files as
\* they were when it was raised.
Raise(msg, files) ==
    /\ fs' = AfterException(files)
    /\ stderr' = Append(stderr, "[ERROR] " \o msg)
    /\ exitCode' = ExceptionReturn
    /\ pc' = "done"

\* ---- Step 1 (lines 171-175, 16-81)
CreateExtractionScript ==
    /\ pc = "step1"
    /\ fs' = WriteFile(fs, JS_FILE, js_script)
    /\ written' = written \cup {JS_FILE}
    /\ stdout' = stdout \o <<"Step 1", "[OK] Created extract_lut.js">>
    /\ pc' = "step2"
    /\ UNCHANGED <<exitCode, mixboxCode, nodeInstalled, lut_data, stderr>>

\* open('extract_lut.js', 'w') raises: nothing is created.
CreateExtractionScriptRaises ==
    /\ pc = "step1"
    /\ stdout' = Append(stdout, "Step 1")
    /\ Raise("cannot write extract_lut.js", fs)
    /\ UNCHANGED <<mixboxCode, nodeInstalled, lut_data, written>>

\* ---- Step 2 (lines 177-183, 83-102)
\* main()'s "if not run_extraction(): return 1"
ExtractionFailed(files) ==
    /\ fs' = AfterExtractionFailure(files)
    /\ stdout' = stdout \o <<"Step 2", "Running Node.js extraction script...",
                             "[FAIL] Extraction failed">>
    /\ exitCode' = ExtractionFailedReturn
    /\ pc' = "done"

\* subprocess.run raises FileNotFoundError (lines 100-102).
NodeNotFound ==
    /\ pc = "step2"
    /\ ~nodeInstalled
    /\ stderr' = Append(stderr, "Error: Node.js not found. Please install Node.js to run this script.")
    /\ ExtractionFailed(fs)
    /\ UNCHANGED <<mixboxCode, nodeInstalled, lut_data, written>>

\* node runs the snippet and exits non-zero: CalledProcessError (lines 95-99).
ExtractionScriptFails ==
    /\ pc = "step2"
    /\ nodeInstalled
    /\ \E fault \in {"none", "read", "eval", "write"} :
         LET r == ExtractLutJs(mixboxCode, fs, fault) IN
         /\ r.status # 0
         /\ stderr' = stderr \o <<"Error running extraction script", "stderr: " \o r.err>>
         /\ ExtractionFailed(r.files)
    /\ UNCHANGED <<mixboxCode, nodeInstalled, lut_data, written>>

\* node runs the snippet and exits 0 (lines 87-94).
RunExtraction ==
    /\ pc = "step2"
    /\ nodeInstalled
    /\ LET r == ExtractLutJs(mixboxCode, fs, "none") IN
         /\ r.status = 0
         /\ fs' = r.files
    /\ written' = written \cup {RAW_FILE}
    /\ stdout' = stdout \o <<"Step 2", "Running Node.js extraction script...",
                             "[OK] Extraction complete">>
    /\ pc' = "step3"
    /\ UNCHANGED <<exitCode, mixboxCode, nodeInstalled, lut_data, stderr>>

\* subprocess.run raises something the function does not catch (the executable
\* cannot be started, the captured output cannot be decoded).
RunExtractionRaises ==
    /\ pc = "step2"
    /\ nodeInstalled
    /\ stdout' = stdout \o <<"Step 2", "Running Node.js extraction script...">>
    /\ Raise("subprocess.run", fs)
    /\ UNCHANGED <<mixboxCode, nodeInstalled, lut_data, written>>

\* ---- Step 3 (lines 185-189, 104-151)
ConvertStart == stdout \o <<"Step 3", "Converting to Dart format...">>

\* open('mixbox_lut_raw.bin', 'rb') raises; certain when the file is missing.
ConvertReadRaises ==
    /\ pc = "step3"
    /\ stdout' = ConvertStart
    /\ Raise("cannot read mixbox_lut_raw.bin", fs)
    /\ UNCHANGED <<mixboxCode, nodeInstalled, lut_data, written>>

\* os.makedirs or open(output_path, 'w') raises: the output is not touched.
ConvertOpenRaises ==
    /\ pc = "step3"
    /\ Exists(fs, RAW_FILE)
    /\ lut_data' = fs[RAW_FILE]
    /\ stdout' = ConvertStart \o <<"Read bytes">>
    /\ Raise("cannot open output", fs)
    /\ UNCHANGED <<mixboxCode, nodeInstalled, written>>

\* f.write or the close raises after open(output_path, 'w') truncated the
\* file: a proper prefix of the text is left behind.
ConvertWriteRaises ==
    /\ pc = "step3"
    /\ Exists(fs, RAW_FILE)
    /\ lut_data' = fs[RAW_FILE]
    /\ \E k \in 0..(Len(dart_code(fs[RAW_FILE])) - 1) :
         Raise("cannot write output",
               WriteFile(fs, OUT_FILE, SubSeq(dart_code(fs[RAW_FILE]), 1, k)))
    /\ written' = written \cup {OUT_FILE}
    /\ stdout' = ConvertStart \o <<"Read bytes">>
    /\ UNCHANGED <<mixboxCode, nodeInstalled>>

ConvertToDart ==
    /\ pc = "step3"
    /\ Exists(fs, RAW_FILE)
    /\ lut_data' = fs[RAW_FILE]
    /\ fs' = WriteFile(fs, OUT_FILE, dart_code(fs[RAW_FILE]))
    /\ written' = written \cup {OUT_FILE}
    /\ stdout' = ConvertStart \o <<"Read bytes", "Generated", "[OK] Dart file generated">>
    /\ pc' = "step4"
    /\ UNCHANGED <<exitCode, mixboxCode, nodeInstalled, stderr>>

\* ---- Step 4 (lines 191-201, 153-158)
Cleanup ==
    /\ pc = "step4"
    /\ fs' = CleanupFirst(fs, Len(CleanupNames))
    /\ stdout' = stdout \o <<"Step 4">> \o CleanupLog(fs, Len(CleanupNames))
                        \o <<"[OK] Cleanup complete", "SUCCESS">>
    /\ exitCode' = SuccessReturn
    /\ pc' = "done"
    /\ UNCHANGED <<mixboxCode, nodeInstalled, lut_data, stderr, written>>

\* os.remove raises on the k-th name: the names before it are already gone.
CleanupRaises ==
    /\ pc = "step4"
    /\ \E k \in 1..Len(CleanupNames) :
         /\ Exists(fs, CleanupNames[k])
         /\ stdout' = stdout \o <<"Step 4">> \o CleanupLog(fs, k - 1)
         /\ Raise("cannot remove file", CleanupFirst(fs, k - 1))
    /\ UNCHANGED <<mixboxCode, nodeInstalled, lut_data, written>>

\* ------------------------------------------------------------- inputs
\* A decompressed buffer of length n: byte i of family seed.  89 is odd, so 256
\* consecutive indices run through every byte value.
LutOf(n, seed) == [i \in 1..n |-> ((seed * 32 + i) * 89) % 256]

\* What decompress() may return: every length from 0 to the expected size plus
\* MaxHeader.
Decompressed == {LutOf(n, s) : n \in 0..(expectedSize + MaxHeader), s \in 0..MaxSeed}

MixboxFiles ==
    {[hasLutDecl |-> df[1], hasDecompressFn |-> df[2], lut |-> <<>>] :
        df \in {<<FALSE, FALSE>>, <<FALSE, TRUE>>, <<TRUE, FALSE>>}}
    \cup {[hasLutDecl |-> TRUE, hasDecompressFn |-> TRUE, lut |-> l] : l \in Decompressed}

StaleRaw == <<1, 2, 3>>
StaleOut == <<"stale">>

\* The scripts directory before the run: each of the three files may be left
\* over from an earlier run.
InitialFiles ==
    {[n \in S |-> CASE n = JS_FILE -> js_script
                    [] n = RAW_FILE -> StaleRaw
                    [] OTHER -> StaleOut] : S \in SUBSET {JS_FILE, RAW_FILE, OUT_FILE}}

Init ==
    /\ pc = "step1"
    /\ exitCode = Running
    /\ mixboxCode \in MixboxFiles
    /\ nodeInstalled \in BOOLEAN
    /\ fs \in InitialFiles
    /\ lut_data = <<>>
    /\ stdout = <<>>
    /\ stderr = <<>>
    /\ written = {}

Next ==
    \/ CreateExtractionScript
    \/ CreateExtractionScriptRaises
    \/ NodeNotFound
    \/ ExtractionScriptFails
    \/ RunExtraction
    \/ RunExtractionRaises
    \/ ConvertReadRaises
    \/ ConvertOpenRaises
    \/ ConvertWriteRaises
    \/ ConvertToDart
    \/ Cleanup
    \/ CleanupRaises

Spec == Init /\ [][Next]_vars

\* ---- convert_to_dart on its own: the scripts directory holds any raw file (or
\* none) when step 3 starts.
RawFiles == {LutOf(n, s) : n \in 0..MaxBufLen, s \in 0..MaxSeed}

InitConvert ==
    /\ pc = "step3"
    /\ exitCode = Running
    /\ mixboxCode = [hasLutDecl |-> TRUE, hasDecompressFn |-> TRUE, lut |-> <<>>]
    /\ nodeInstalled = TRUE
    /\ fs \in {[n \in {JS_FILE} |-> js_script]}
               \cup {[n \in {JS_FILE, RAW_FILE} |->
                        IF n = JS_FILE THEN js_script ELSE raw] : raw \in RawFiles}
    /\ lut_data = <<>>
    /\ stdout = <<>>
    /\ stderr = <<>>
    /\ written = {}

NextConvert ==
    \/ ConvertReadRaises
    \/ ConvertOpenRaises
    \/ ConvertWriteRaises
    \/ ConvertToDart

SpecConvert == InitConvert /\ [][NextConvert]_vars

\* ------------------------------------------------------------- reading the output back
\* What a reader of the generated file sees, written independently of the
\* operators that produce it.
IsDigit(c) == c \in Range(Digits)

DigitVal(c) == CHOOSE d \in 0..9 : Digits[d + 1] = c

\* The k-th smallest element of a set of positions.
Nth(S, k) == CHOOSE p \in S : Cardinality({q \in S : q < p}) = k - 1

\* The value of the decimal literal that occupies positions p..e of text.
RECURSIVE Value(_, _, _)
Value(text, p, e) ==
    IF e < p THEN 0 ELSE Value(text, p, e - 1) * 10 + DigitVal(text[e])

\* The literal that starts at position p runs to the last digit before the
\* next character that is no digit.
LiteralEnd(text, p) ==
    CHOOSE e \in p..Len(text) :
        /\ \A m \in p..e : IsDigit(text[m])
        /\ e = Len(text) \/ ~IsDigit(text[e + 1])

\* The integer literals of a text, in order.
Entries(text) ==
    LET starts == {i \in 1..Len(text) :
                      IsDigit(text[i]) /\ (i = 1 \/ ~IsDigit(text[i - 1]))}
    IN  [k \in 1..Cardinality(starts) |->
            Value(text, Nth(starts, k), LiteralEnd(text, Nth(starts, k)))]

\* The lines of a text that ends with a line break, each without its line
\* break.
TextLines(text) ==
    LET breaks == {i \in 1..Len(text) : text[i] = "\n"}
    IN  [k \in 1..Cardinality(breaks) |->
            SubSeq(text, (IF k = 1 THEN 0 ELSE Nth(breaks, k - 1)) + 1,
                   Nth(breaks, k) - 1)]

Count(text, c) == Cardinality({i \in 1..Len(text) : text[i] = c})

\* The last n elements of s.
LastN(s, n) == [i \in 1..n |-> s[Len(s) - n + i]]

\* A complete generated file: the header, then text, then the closing "];".
IsCompleteLiteral(text) ==
    /\ Len(text) >= 5
    /\ text[1] = DartHeader
    /\ text[2] = "\n"
    /\ SubSeq(text, Len(text) - 2, Len(text)) = <<"]", ";", "\n">>

Printed(out, msg) == msg \in Range(out)

PatternsFound == mixboxCode.hasLutDecl /\ mixboxCode.hasDecompressFn

\* convert_to_dart returned normally in this run.
Converted == Printed(stdout, "Generated")

\* ------------------------------------------------------------- claims

\* C1: when the decompressed buffer is shorter than the expected size, the run
\* can only end with exit code 1, the formatter stage (step 3) is never
\* entered, and neither the raw binary file nor the output file is written.
C1_TooSmallAborts ==
    (PatternsFound /\ Len(mixboxCode.lut) < expectedSize)
        => /\ pc \notin {"step3", "step4"}
           /\ ~Printed(stdout, "Step 3")
           /\ RAW_FILE \notin written
           /\ OUT_FILE \notin written
           /\ (pc = "done" => exitCode = 1)

C1_Witness ==
    /\ pc = "done"
    /\ exitCode = 1
    /\ PatternsFound
    /\ Len(mixboxCode.lut) = expectedSize - 1
    /\ Printed(stderr, "stderr: Decompressed data smaller than expected!")

\* C2: when the decompressed buffer is longer than the expected size, the raw
\* file the snippet writes, the bytes the formatter reads and the entries of
\* the generated literal are exactly the last expectedSize bytes of the
\* buffer, in order (the leading Len - expectedSize bytes are dropped).
C2_HeaderTrim ==
    (PatternsFound /\ Len(mixboxCode.lut) > expectedSize /\ RAW_FILE \in written)
        => LET tail == LastN(mixboxCode.lut, expectedSize) IN
           /\ Exists(fs, RAW_FILE) => fs[RAW_FILE] = tail
           /\ Printed(stdout, "Read bytes") => lut_data = tail
           /\ Converted => Entries(fs[OUT_FILE]) = tail

C2_Witness ==
    /\ pc = "done"
    /\ exitCode = 0
    /\ Len(mixboxCode.lut) = expectedSize + MaxHeader
    /\ Len(Entries(fs[OUT_FILE])) = expectedSize
    /\ Entries(fs[OUT_FILE])[1] = mixboxCode.lut[MaxHeader + 1]

\* C3: when the decompressed buffer has exactly the expected size, nothing is
\* trimmed: the raw file holds the buffer unchanged and the entries of the
\* generated literal, read back, are the decompressed bytes entry for entry.
C3_ExactRoundTrip ==
    (PatternsFound /\ Len(mixboxCode.lut) = expectedSize /\ RAW_FILE \in written)
        => /\ Exists(fs, RAW_FILE) => fs[RAW_FILE] = mixboxCode.lut
           /\ Converted => /\ IsCompleteLiteral(fs[OUT_FILE])
                           /\ Entries(fs[OUT_FILE]) = mixboxCode.lut

C3_Witness ==
    /\ pc = "step4"
    /\ Len(mixboxCode.lut) = expectedSize
    /\ Converted
    /\ Entries(fs[OUT_FILE]) = mixboxCode.lut
    /\ \E i \in 1..expectedSize : mixboxCode.lut[i] >= 100

\* The message the snippet prints for the first pattern it misses.
C4_MissingMessage ==
    IF ~mixboxCode.hasLutDecl THEN "stderr: Could not find LUT data in mixbox.esm.js"
    ELSE "stderr: Could not find decompress function"

\* C4: when the input lacks the compressed-data declaration or the decompress
\* function, the run can only end with exit code 1 and an error message on
\* stderr (the snippet's own message once the snippet got to look for the
\* patterns), and the output file is never written.
C4_LocatorFailure ==
    ~PatternsFound
        => /\ OUT_FILE \notin written
           /\ pc \notin {"step3", "step4"}
           /\ pc = "done"
                => /\ exitCode = 1
                   /\ stderr # <<>>
                   /\ Printed(stderr, "Error running extraction script")
                        => \/ Printed(stderr, C4_MissingMessage)
                           \/ Printed(stderr, "stderr: Uncaught exception")

C4_Witness ==
    /\ pc = "done"
    /\ exitCode = 1
    /\ mixboxCode.hasLutDecl
    /\ ~mixboxCode.hasDecompressFn
    /\ Printed(stderr, "stderr: Could not find decompress function")
    /\ OUT_FILE \notin written

\* The four "[OK]" reports of main().
AllStepsCompleted ==
    /\ Printed(stdout, "[OK] Created extract_lut.js")
    /\ Printed(stdout, "[OK] Extraction complete")
    /\ Printed(stdout, "[OK] Dart file generated")
    /\ Printed(stdout, "[OK] Cleanup complete")

\* C5: a run ends with exit code 0 or 1; it is 0 exactly when all four steps
\* reported completion, and 1 whenever an error was reported: node missing,
\* the snippet exiting non-zero (missing pattern, too small, a crash), or an
\* exception in any step.
C5_ExitCodes ==
    /\ pc # "done" => exitCode = Running
    /\ pc = "done"
         => /\ exitCode \in {0, 1}
            /\ exitCode = 0 <=> AllStepsCompleted
            /\ stderr # <<>> => exitCode = 1
            /\ Printed(stdout, "[FAIL] Extraction failed") => exitCode = 1
            /\ exitCode = 1 => stderr # <<>>

C5_Witness ==
    /\ pc = "done"
    /\ exitCode = 1
    /\ nodeInstalled
    /\ PatternsFound
    /\ Len(mixboxCode.lut) < expectedSize
    /\ Printed(stdout, "[FAIL] Extraction failed")

\* C6 as stated: a finished run either exits 0 with the complete output
\* written, or exits 1 without having touched the output file.
C6_AllOrNothing ==
    pc = "done"
        => \/ /\ exitCode = 0
              /\ OUT_FILE \in written
              /\ IsCompleteLiteral(fs[OUT_FILE])
           \/ /\ exitCode = 1
              /\ OUT_FILE \notin written

\* C6 amended: a run that exits 0 has written the complete output file; a run
\* that exits 1 has not touched the output file unless it failed while
\* writing it in step 3 (a truncated file is left) or in the cleanup step that
\* follows the write (the complete file is left).
C6_AllOrNothingAmended ==
    pc = "done"
        => /\ exitCode = 0
                => /\ OUT_FILE \in written
                   /\ IsCompleteLiteral(fs[OUT_FILE])
                   /\ Entries(fs[OUT_FILE]) = lut_data
           /\ (exitCode = 1 /\ OUT_FILE \in written)
                => \/ /\ Printed(stderr, "[ERROR] cannot write output")
                      /\ ~IsCompleteLiteral(fs[OUT_FILE])
                   \/ /\ Printed(stdout, "Step 4")
                      /\ IsCompleteLiteral(fs[OUT_FILE])
                      /\ Entries(fs[OUT_FILE]) = lut_data
           /\ (exitCode = 1 /\ ~Printed(stdout, "Read bytes")) => OUT_FILE \notin written

C6_Witness ==
    /\ pc = "done"
    /\ exitCode = 1
    /\ Printed(stdout, "Step 4")
    /\ OUT_FILE \in written
    /\ IsCompleteLiteral(fs[OUT_FILE])

\* C7: in a run that ends with exit code 0 neither intermediate file exists
\* at termination, whatever the directory held before the run.
C7_CleanupOnSuccess ==
    (pc = "done" /\ exitCode = 0)
        => /\ ~Exists(fs, JS_FILE)
           /\ ~Exists(fs, RAW_FILE)

C7_Witness ==
    /\ pc = "done"
    /\ exitCode = 0
    /\ Printed(stdout, "Cleaned up extract_lut.js")
    /\ Printed(stdout, "Cleaned up mixbox_lut_raw.bin")
    /\ DOMAIN fs = {OUT_FILE}

\* C8: whenever the formatter stage runs, the raw file it reads has exactly
\* expectedSize bytes, so a generated literal has exactly expectedSize
\* entries, each in 0..255; a run whose normalised length would differ never
\* reaches the formatter.
C8_BufferLength ==
    /\ pc \in {"step3", "step4"}
         => /\ Exists(fs, RAW_FILE)
            /\ Len(fs[RAW_FILE]) = expectedSize
    /\ Printed(stdout, "Read bytes")
         => /\ Len(lut_data) = expectedSize
            /\ \A i \in 1..Len(lut_data) : lut_data[i] \in 0..255
    /\ Converted
         => /\ Len(Entries(fs[OUT_FILE])) = expectedSize
            /\ \A i \in 1..expectedSize : Entries(fs[OUT_FILE])[i] \in 0..255
    /\ Printed(stdout, "Step 3")
         => /\ PatternsFound
            /\ Len(mixboxCode.lut) >= expectedSize

C8_Witness ==
    /\ pc = "step4"
    /\ Len(mixboxCode.lut) > expectedSize
    /\ Len(lut_data) = expectedSize
    /\ Len(Entries(fs[OUT_FILE])) = expectedSize

\* One data line of the literal: indented, holding the values want, with a
\* trailing comma unless it is the last.
C9_LineOk(line, want, last) ==
    /\ Len(line) >= 3
    /\ SubSeq(line, 1, 2) = <<" ", " ">>
    /\ Entries(line) = want
    /\ Count(line, ",") = Len(want) - (IF last THEN 1 ELSE 0)
    /\ (line[Len(line)] = ",") <=> ~last
    /\ \A i \in 1..Len(line) :
         /\ (line[i] = "," /\ i < Len(line)) => line[i + 1] = " "
         /\ (line[i] = " " /\ i > 2) => line[i - 1] = ","
         /\ line[i] = "," => IsDigit(line[i - 1])

\* C9: for a raw file of N > 0 bytes the generated text is the header, then
\* ceil(N/16) data lines, then "];".  Every data line is indented by two
\* spaces and holds 16 values, except the last, which holds the remaining
\* N - 16*(ceil(N/16)-1); the values are the bytes in order, as decimals;
\* values on a line are separated by ", ", every line but the last ends with
\* a comma and the last does not: N entries, N-1 commas.
C9_FormatterLayout ==
    (Converted /\ Len(lut_data) > 0)
        => LET N == Len(lut_data)
               text == fs[OUT_FILE]
               lines == TextLines(text)
               nl == (N + 15) \div 16
           IN  /\ IsCompleteLiteral(text)
               /\ Len(lines) = nl + 2
               /\ lines[1] = <<DartHeader>>
               /\ lines[nl + 2] = <<"]", ";">>
               /\ \A k \in 1..nl :
                    C9_LineOk(lines[k + 1],
                              [j \in 1..(IF k < nl THEN 16 ELSE N - 16 * (nl - 1)) |->
                                    lut_data[16 * (k - 1) + j]],
                              k = nl)
               /\ Len(Entries(text)) = N
               /\ Count(text, ",") = N - 1

C9_Witness ==
    /\ Converted
    /\ Len(lut_data) = 33
    /\ Len(TextLines(fs[OUT_FILE])) = 5
    /\ Len(Entries(TextLines(fs[OUT_FILE])[4])) = 1

\* C10 as stated: a run that ends with exit code 1 after step 1 wrote the
\* snippet still has extract_lut.js, and mixbox_lut_raw.bin if it was
\* produced.
C10_NoCleanupOnFailure ==
    (pc = "done" /\ exitCode = 1 /\ JS_FILE \in written)
        => /\ Exists(fs, JS_FILE)
           /\ RAW_FILE \in written => Exists(fs, RAW_FILE)

\* C10 amended: the intermediate files are deleted only by the cleanup step;
\* as long as step 4 has not started, and so in every run that ends with exit
\* code 1 before it, the snippet written by step 1 and the raw file written
\* by step 2 still exist.  (A run that fails inside the cleanup step may
\* already have removed extract_lut.js.)
C10_NoCleanupBeforeStep4 ==
    ~Printed(stdout, "Step 4")
        => /\ JS_FILE \in written => Exists(fs, JS_FILE)
           /\ RAW_FILE \in written => Exists(fs, RAW_FILE)

C10_Witness ==
    /\ pc = "done"
    /\ exitCode = 1
    /\ Printed(stderr, "[ERROR] cannot open output")
    /\ Exists(fs, JS_FILE)
    /\ Exists(fs, RAW_FILE)
    /\ Len(fs[RAW_FILE]) = expectedSize

====
